---- MODULE Spec2Model ----
(***************************************************************************)
(* Model of renfield-mcp-dlna: the queue playback state machine and the    *)
(* session registry of queue_manager.py, and the discovery cache of        *)
(* discovery.py.                                                           *)
(*                                                                         *)
(* Coroutines are records in the bag `tasks`.  A coroutine gives up        *)
(* control only at an await that really suspends (a device command, the    *)
(* notify server's start or stop); its field pc names the call it is       *)
(* suspended in.  One action runs one coroutine from one suspension to the *)
(* next: it resolves the awaited call (acknowledged, or failed with an     *)
(* exception), runs the code that follows and issues the next call.        *)
(***************************************************************************)
EXTENDS Integers, Sequences, FiniteSets, Bags, TLC

(* ---- bounds ---- *)
MaxTracks == 3
MaxSessions == 1
MaxTasks == 2
MaxReplays == 3
MaxPairSessions == 2
MaxSearches == 3
MaxPasses == 2

(* ---- program constants ---- *)
CACHE_TTL == 300

None == 0

(* Strings the code takes apart are sequences of their parts: a url is     *)
(* <<scheme, "//netloc", path>> or, when relative, <<path>>; the empty     *)
(* string is <<>>.                                                         *)
EmptyStr == <<>>

(* The rendering control url of a renderer record that has one.           *)
RcUrl == <<"http", "//10.0.0.1:1400", "/rc/control">>

(* The renderer records handed to the queue manager: one that supports     *)
(* SetNextAVTransportURI and one that does not.                            *)
UDNs == {1, 2}

(* The renderer records discovery can hand out for one device: its         *)
(* SetNextAVTransportURI support is found, or not.                         *)
Renderers ==
  { [udn |-> 1, supports_next |-> b, rendering_control_url |-> RcUrl] : b \in BOOLEAN }

(* A track is its url; the track lists a caller may pass.                  *)
TrackLists == { [i \in 1..n |-> i] : n \in 1..MaxTracks }

URIs == 0..MaxTracks

TransportStates == {"", "PLAYING", "PAUSED", "STOPPED"}

VARIABLES
  sessions,        \* every QueueSession object created so far, by id
  registry,        \* _sessions: udn -> session id, None when absent
  notify_server,   \* _notify_server (and _requester, _event_handler, _factory): id or None
  running,         \* the notify servers that are started and not stopped
  tasks,           \* the bag of coroutines that are suspended or scheduled
  device,          \* per renderer: the commands most recently issued to it
  result,          \* what the coroutine that finished last returned or raised
  cache,           \* _renderer_cache
  cache_time,      \* _cache_time
  now,             \* time.time()
  network,         \* what the network answered the last finished discovery pass
  returned,        \* what the last discover_renderers call returned
  searches,        \* the _ssdp_search calls made so far
  passes,          \* the discovery passes in progress
  lookup,          \* the find_renderer call that awaits its discovery pass
  resolved,        \* what the last find_renderer call returned
  reply,           \* what the last tool of the server answered
  report,          \* what the last status() call returned
  forwarded        \* the volume last passed to QueueSession.set_volume

qvars == <<sessions, registry, notify_server, running, tasks, device, result>>
dvars == <<cache, cache_time, now, network, returned, searches, passes>>
svars == <<lookup, resolved, reply, report, forwarded>>
vars == <<sessions, registry, notify_server, running, tasks, device, result,
          cache, cache_time, now, network, returned, searches, passes,
          lookup, resolved, reply, report, forwarded>>

(* ---- QueueSession ---- *)

NewSession(renderer, tracks) ==
  [ renderer |-> renderer,
    tracks |-> tracks,
    current_index |-> 0,
    preloaded_index |-> -1,     \* -1 is Python's None
    dmr |-> FALSE,              \* self._dmr is not None
    event_handler |-> None,     \* the event handler self._dmr was built with
    subscribed |-> FALSE,       \* the device delivers events to _on_event
    torn |-> FALSE,             \* _cleanup has run for this session
    stopped |-> FALSE ]         \* a stop() of this session has completed

NoRenderer == [udn |-> None, supports_next |-> FALSE, rendering_control_url |-> EmptyStr]

NoTask ==
  [ kind |-> "", s |-> None, pc |-> "", existing |-> None, next_idx |-> -1,
    track |-> -1, server |-> None, renderer |-> NoRenderer, tracks |-> <<>>,
    overlap |-> FALSE, volume |-> -1,
    volume_level |-> <<>> ]            \* the fraction <<numerator, denominator>>

Add(B, t) == B (+) SetToBag({t})
Remove(B, t) == B (-) SetToBag({t})
Replace(B, t, u) == Add(Remove(B, t), u)
Tasks == BagToSet(tasks)
NumTasks == BagCardinality(tasks)

Udn(s) == sessions[s].renderer.udn
Len_tracks(s) == Len(sessions[s].tracks)
Url(s, i) == sessions[s].tracks[i + 1]      \* self.tracks[i].url, i 0-based

RegistryEmpty_any(R) == \E u \in UDNs : R[u] = None

RegistryEmpty(R) == \A u \in UDNs : R[u] = None

Issue(D, u, cmd, url) ==
  [D EXCEPT ![u] = [ uri |-> IF cmd = "SetAVTransportURI" THEN url ELSE @.uri,
                     next_uri |-> IF cmd = "SetNextAVTransportURI" THEN url
                                  ELSE @.next_uri ]]

(* outcome is "returned", "absent" (the call returned None) or "raised";    *)
(* track is the index of the Track a next or previous call returned.       *)
Finish(kind, s, outcome, track) ==
  result' = [kind |-> kind, outcome |-> outcome, track |-> track]

(* ---- the ends of a coroutine ---- *)

(* The value a finished coroutine hands to its caller.  _preload_next,     *)
(* _auto_advance and _cleanup run as tasks of the event loop: nobody       *)
(* awaits them.                                                            *)
Return(t, outcome) ==
  IF t.kind \in {"_preload_next", "_auto_advance", "_cleanup"}
    THEN UNCHANGED result
    ELSE Finish(t.kind, t.s, outcome, IF outcome = "returned" THEN t.track ELSE -1)

(* ---- QueueSession._preload_next ---- *)

(* _preload_next that does not ask whether the renderer supports          *)
(* SetNextAVTransportURI.                                                  *)
preload_next_any_renderer(B, t, S) ==
  LET s == t.s
      next_idx == S[s].current_index + 1
  IN /\ sessions' = S
     /\ IF \/ next_idx >= Len(S[s].tracks)
           \/ ~S[s].dmr
          THEN /\ tasks' = Remove(B, t)
               /\ Return(t, "returned")
               /\ UNCHANGED device
          ELSE /\ tasks' = Replace(B, t,
                              [t EXCEPT !.pc = "set_next", !.next_idx = next_idx])
               /\ device' = Issue(device, S[s].renderer.udn,
                                  "SetNextAVTransportURI", S[s].tracks[next_idx + 1])
               /\ UNCHANGED result

(* _preload_next up to its await, run by the coroutine t of the bag B on   *)
(* the sessions S.                                                         *)
preload_next(B, t, S) ==
  LET s == t.s
      next_idx == S[s].current_index + 1
  IN /\ sessions' = S
     /\ IF \/ next_idx >= Len(S[s].tracks)
           \/ ~S[s].renderer.supports_next
           \/ ~S[s].dmr
          THEN /\ tasks' = Remove(B, t)
               /\ Return(t, "returned")
               /\ UNCHANGED device
          ELSE /\ tasks' = Replace(B, t,
                              [t EXCEPT !.pc = "set_next", !.next_idx = next_idx])
               /\ device' = Issue(device, S[s].renderer.udn,
                                  "SetNextAVTransportURI", S[s].tracks[next_idx + 1])
               /\ UNCHANGED result

(* set_next_done that does not record the index it preloaded.              *)
set_next_done_forgets(t, ok) ==
  /\ t \in Tasks /\ t.pc = "set_next"
  /\ sessions' = [sessions EXCEPT ![t.s].preloaded_index = -1]
  /\ tasks' = Remove(tasks, t)
  /\ Return(t, "returned")
  /\ UNCHANGED <<registry, notify_server, running, device, dvars, svars>>

(* async_set_next_transport_uri is acknowledged or fails.                  *)
set_next_done(t, ok) ==
  /\ t \in Tasks /\ t.pc = "set_next"
  /\ sessions' = [sessions EXCEPT ![t.s].preloaded_index =
                                     IF ok THEN t.next_idx ELSE -1]
  /\ tasks' = Remove(tasks, t)
  /\ Return(t, "returned")
  /\ UNCHANGED <<registry, notify_server, running, device, dvars, svars>>

(* ---- play_tracks, QueueSession.stop, QueueSession.start ---- *)

(* session = QueueSession(...); _sessions[udn] = session; session.start()  *)
(* up to the first await that suspends: _ensure_infrastructure returns at  *)
(* once when the notify server exists, and else awaits its start.          *)
CreateAndStart(B, t, S, R, ns, run) ==
  LET id == Len(S) + 1
  IN /\ sessions' = Append(S, NewSession(t.renderer, t.tracks))
     /\ registry' = [R EXCEPT ![t.renderer.udn] = id]
     /\ running' = run
     /\ IF ns # None
          THEN /\ notify_server' = ns
               /\ tasks' = Replace(B, t,
                              [t EXCEPT !.s = id, !.pc = "create_device"])
          ELSE /\ notify_server' = id
               /\ tasks' = Replace(B, t,
                              [t EXCEPT !.s = id, !.pc = "start_server",
                                        !.server = id])
     /\ UNCHANGED <<device, result>>

(* stop() of the session t.existing has returned: to play_tracks, which    *)
(* goes on to create the new session, or to the caller of stop.            *)
StopReturns(B, t, S, R, ns, run) ==
  LET S1 == [S EXCEPT ![t.existing].stopped = TRUE]
  IN IF t.kind = "play_tracks"
       THEN CreateAndStart(B, t, S1, R, ns, run)
       ELSE /\ sessions' = S1
            /\ registry' = R
            /\ notify_server' = ns
            /\ running' = run
            /\ tasks' = Remove(B, t)
            /\ Return(t, "returned")
            /\ UNCHANGED device

(* _cleanup that leaves the entry of the session in the registry.          *)
cleanup_keeps_entry(B, t, e, S) ==
  LET S1 == [S EXCEPT ![e].torn = TRUE]
      R1 == registry
  IN IF RegistryEmpty(R1) /\ notify_server # None
       THEN /\ sessions' = S1
            /\ registry' = R1
            /\ tasks' = Replace(B, t, [t EXCEPT !.pc = "stop_server",
                                                !.server = notify_server])
            /\ UNCHANGED <<notify_server, running, device, result>>
       ELSE IF t.kind = "_cleanup"
         THEN /\ sessions' = S1
              /\ registry' = R1
              /\ tasks' = Remove(B, t)
              /\ UNCHANGED <<notify_server, running, device, result>>
         ELSE StopReturns(B, t, S1, R1, notify_server, running)

(* await self._cleanup() for the session e, run by the coroutine t: up to  *)
(* the await in _shutdown_infrastructure, or through to what follows it.   *)
cleanup(B, t, e, S) ==
  LET S1 == [S EXCEPT ![e].torn = TRUE]
      R1 == [registry EXCEPT ![S[e].renderer.udn] = None]
  IN IF RegistryEmpty(R1) /\ notify_server # None
       THEN /\ sessions' = S1
            /\ registry' = R1
            /\ tasks' = Replace(B, t, [t EXCEPT !.pc = "stop_server",
                                                !.server = notify_server])
            /\ UNCHANGED <<notify_server, running, device, result>>
       ELSE IF t.kind = "_cleanup"
         THEN /\ sessions' = S1
              /\ registry' = R1
              /\ tasks' = Remove(B, t)
              /\ UNCHANGED <<notify_server, running, device, result>>
         ELSE StopReturns(B, t, S1, R1, notify_server, running)

(* async_stop_server returns and _shutdown_infrastructure resets the       *)
(* globals.                                                                *)
stop_server_done(t) ==
  /\ t \in Tasks /\ t.pc = "stop_server"
  /\ IF t.kind = "_cleanup"
       THEN /\ notify_server' = None
            /\ running' = running \ {t.server}
            /\ tasks' = Remove(tasks, t)
            /\ UNCHANGED <<sessions, registry, device, result>>
       ELSE StopReturns(tasks, t, sessions, registry, None, running \ {t.server})
  /\ UNCHANGED <<dvars, svars>>

(* The coroutines a caller awaits; the others are tasks of the event loop. *)
Callers == {"play_tracks", "next", "previous", "stop"}

(* overlap records that another caller's coroutine was in progress while   *)
(* this one was: it changes nothing the code does.                         *)
MarkOverlap(t) ==
  IF t.kind \in Callers THEN [t EXCEPT !.overlap = TRUE] ELSE t

Overlaps == \E t \in Tasks : t.kind \in Callers

(* The bag of coroutines once the caller's coroutine t has been added.     *)
Call(t) == Add(BagOfAll(MarkOverlap, tasks), [t EXCEPT !.overlap = Overlaps])

(* play_tracks that creates the new session without stopping the one the   *)
(* registry holds.                                                         *)
play_tracks_without_stop(renderer, trk) ==
  LET t == [NoTask EXCEPT !.kind = "play_tracks", !.pc = "call",
                          !.renderer = renderer, !.tracks = trk,
                          !.existing = registry[renderer.udn],
                          !.overlap = Overlaps]
  IN /\ NumTasks < MaxTasks
     /\ CreateAndStart(Call(t), t, sessions, registry, notify_server, running)
     /\ UNCHANGED <<dvars, svars>>

(* A caller calls play_tracks(renderer, tracks): up to the first await.    *)
play_tracks(renderer, trk) ==
  LET existing == registry[renderer.udn]
      t == [NoTask EXCEPT !.kind = "play_tracks", !.pc = "call",
                          !.renderer = renderer, !.tracks = trk,
                          !.existing = existing, !.overlap = Overlaps]
      B == Call(t)
  IN /\ NumTasks < MaxTasks
     /\ IF existing = None
          THEN CreateAndStart(B, t, sessions, registry, notify_server, running)
          ELSE IF sessions[existing].dmr
            THEN /\ tasks' = Replace(B, t, [t EXCEPT !.pc = "stop"])
                 /\ device' = Issue(device, renderer.udn, "Stop", 0)
                 /\ UNCHANGED <<sessions, registry, notify_server, running, result>>
            ELSE cleanup(B, t, existing, sessions)
     /\ UNCHANGED <<dvars, svars>>

(* A caller calls stop() on the session registered for udn: up to the      *)
(* first await.                                                            *)
stop(udn) ==
  LET s == registry[udn]
      t == [NoTask EXCEPT !.kind = "stop", !.s = s, !.existing = s,
                          !.pc = "call", !.overlap = Overlaps]
  IN /\ s # None
     /\ NumTasks < MaxTasks
     /\ IF sessions[s].dmr
          THEN /\ tasks' = Replace(Call(t), t, [t EXCEPT !.pc = "stop"])
               /\ device' = Issue(device, udn, "Stop", 0)
               /\ UNCHANGED <<sessions, registry, notify_server, running, result>>
          ELSE cleanup(Call(t), t, s, sessions)
     /\ UNCHANGED <<dvars, svars>>

(* The holder of the session object s calls stop() on it once more, an     *)
(* earlier stop() of s having returned: up to the first await.             *)
stop_again(s) ==
  LET t == [NoTask EXCEPT !.kind = "stop", !.s = s, !.existing = s,
                          !.pc = "call", !.overlap = Overlaps]
  IN /\ s \in 1..Len(sessions)
     /\ sessions[s].stopped
     /\ NumTasks < MaxTasks
     /\ IF sessions[s].dmr
          THEN /\ tasks' = Replace(Call(t), t, [t EXCEPT !.pc = "stop"])
               /\ device' = Issue(device, Udn(s), "Stop", 0)
               /\ UNCHANGED <<sessions, registry, notify_server, running, result>>
          ELSE cleanup(Call(t), t, s, sessions)
     /\ UNCHANGED <<dvars, svars>>

(* stop() with both commands in one try block: a failed async_stop skips   *)
(* async_unsubscribe_services.                                             *)
stop_done_one_try(t, ok) ==
  /\ t \in Tasks /\ t.pc = "stop"
  /\ IF ok
       THEN /\ tasks' = Replace(tasks, t, [t EXCEPT !.pc = "unsubscribe"])
            /\ UNCHANGED <<sessions, registry, notify_server, running, device, result>>
       ELSE cleanup(tasks, t, t.existing, sessions)
  /\ UNCHANGED <<dvars, svars>>

(* stop(): async_stop is acknowledged or fails (a failure is only logged); *)
(* async_unsubscribe_services is issued.                                   *)
stop_done(t, ok) ==
  /\ t \in Tasks /\ t.pc = "stop"
  /\ tasks' = Replace(tasks, t, [t EXCEPT !.pc = "unsubscribe"])
  /\ UNCHANGED <<sessions, registry, notify_server, running, device, result, dvars, svars>>

(* stop(): async_unsubscribe_services is acknowledged or fails (a failure  *)
(* is only logged); then _cleanup.                                         *)
unsubscribe_done(t, ok) ==
  /\ t \in Tasks /\ t.pc = "unsubscribe"
  /\ cleanup(tasks, t, t.existing,
             IF ok THEN [sessions EXCEPT ![t.existing].subscribed = FALSE]
                   ELSE sessions)
  /\ UNCHANGED <<dvars, svars>>

(* An awaited call raises and nothing catches it: the coroutine ends.      *)
Raise(t) ==
  /\ tasks' = Remove(tasks, t)
  /\ Return(t, "raised")

(* start(): async_start_server returns; the asserts on _factory and        *)
(* _event_handler; async_create_device is issued.                          *)
start_server_done(t) ==
  /\ t \in Tasks /\ t.pc = "start_server"
  /\ running' = running \cup {t.server}
  /\ IF notify_server # None
       THEN tasks' = Replace(tasks, t, [t EXCEPT !.pc = "create_device"])
            /\ UNCHANGED result
       ELSE Raise(t)
  /\ UNCHANGED <<sessions, registry, notify_server, device, dvars, svars>>

(* start(): async_create_device returns the device, self._dmr is built     *)
(* with the current _event_handler and async_subscribe_services is issued; *)
(* or async_create_device raises.                                          *)
create_device_done(t, ok) ==
  /\ t \in Tasks /\ t.pc = "create_device"
  /\ IF ok
       THEN /\ sessions' = [sessions EXCEPT ![t.s].dmr = TRUE,
                                            ![t.s].event_handler = notify_server]
            /\ tasks' = Replace(tasks, t, [t EXCEPT !.pc = "subscribe"])
            /\ UNCHANGED result
       ELSE Raise(t) /\ UNCHANGED sessions
  /\ UNCHANGED <<registry, notify_server, running, device, dvars, svars>>

(* start(): the subscription is established and async_set_transport_uri    *)
(* for track 0 is issued; or the subscription raises.                      *)
subscribe_done(t, ok) ==
  /\ t \in Tasks /\ t.pc = "subscribe"
  /\ IF ok
       THEN /\ sessions' = [sessions EXCEPT ![t.s].subscribed = TRUE]
            /\ tasks' = Replace(tasks, t, [t EXCEPT !.pc = "set_uri", !.track = 0])
            /\ device' = Issue(device, Udn(t.s), "SetAVTransportURI", Url(t.s, 0))
            /\ UNCHANGED result
       ELSE Raise(t) /\ UNCHANGED <<sessions, device>>
  /\ UNCHANGED <<registry, notify_server, running, dvars, svars>>

(* start, next, previous, _auto_advance: async_set_transport_uri is        *)
(* acknowledged and async_play is issued; or it raises, which only         *)
(* _auto_advance catches.                                                  *)
set_uri_done(t, ok) ==
  /\ t \in Tasks /\ t.pc = "set_uri"
  /\ IF ok
       THEN /\ tasks' = Replace(tasks, t, [t EXCEPT !.pc = "play"])
            /\ device' = Issue(device, Udn(t.s), "Play", 0)
            /\ UNCHANGED result
       ELSE Raise(t) /\ UNCHANGED device
  /\ UNCHANGED <<sessions, registry, notify_server, running, dvars, svars>>

(* async_play is acknowledged: start preloads the second track if there is *)
(* one and the renderer supports it, next and previous call _preload_next, *)
(* _auto_advance is done; or async_play raises.                            *)
play_done(t, ok) ==
  /\ t \in Tasks /\ t.pc = "play"
  /\ IF ~ok
       THEN Raise(t) /\ UNCHANGED <<sessions, device>>
       ELSE IF \/ t.kind \in {"next", "previous"}
               \/ /\ t.kind = "play_tracks"
                  /\ Len_tracks(t.s) > 1
                  /\ sessions[t.s].renderer.supports_next
         THEN preload_next(tasks, t, sessions)
         ELSE /\ tasks' = Remove(tasks, t)
              /\ Return(t, "returned")
              /\ UNCHANGED <<sessions, device>>
  /\ UNCHANGED <<registry, notify_server, running, dvars, svars>>

(* ---- QueueSession._on_event ---- *)

Spawn(kind, s) == [NoTask EXCEPT !.kind = kind, !.s = s, !.pc = "new"]

GaplessTransition(s, uri) ==
  /\ uri # 0
  /\ sessions[s].preloaded_index # -1
  /\ uri = Url(s, sessions[s].preloaded_index)

(* The end of a track that does not ask whether the renderer supports     *)
(* SetNextAVTransportURI.                                                  *)
TrackEnded_any_renderer(s, transport_state) ==
  /\ transport_state = "STOPPED"
  /\ sessions[s].current_index < Len_tracks(s) - 1

TrackEnded(s, transport_state) ==
  /\ transport_state = "STOPPED"
  /\ ~sessions[s].renderer.supports_next
  /\ sessions[s].current_index < Len_tracks(s) - 1

(* The end of the queue that is recognised only past the last index.      *)
AlbumFinished_past_end(s, transport_state) ==
  /\ transport_state = "STOPPED"
  /\ sessions[s].current_index > Len_tracks(s) - 1

AlbumFinished(s, transport_state) ==
  /\ transport_state = "STOPPED"
  /\ sessions[s].current_index >= Len_tracks(s) - 1

(* _on_event whose gapless transition moves current_index one past the     *)
(* preloaded index.                                                        *)
on_event_past_preload(s, transport_state, uri) ==
  /\ s \in 1..Len(sessions)
  /\ sessions[s].subscribed
  /\ sessions[s].event_handler \in running
  /\ IF transport_state = "" /\ uri = 0
       THEN UNCHANGED <<sessions, tasks>>
       ELSE IF GaplessTransition(s, uri)
         THEN /\ NumTasks < MaxTasks
              /\ sessions' = [sessions EXCEPT
                    ![s].current_index = sessions[s].preloaded_index + 1,
                    ![s].preloaded_index = -1]
              /\ tasks' = Add(tasks, Spawn("_preload_next", s))
         ELSE IF TrackEnded(s, transport_state)
           THEN /\ NumTasks < MaxTasks
                /\ tasks' = Add(tasks, Spawn("_auto_advance", s))
                /\ UNCHANGED sessions
           ELSE IF AlbumFinished(s, transport_state)
             THEN /\ NumTasks < MaxTasks
                  /\ tasks' = Add(tasks, Spawn("_cleanup", s))
                  /\ UNCHANGED sessions
             ELSE UNCHANGED <<sessions, tasks>>
  /\ UNCHANGED <<registry, notify_server, running, device, result, dvars, svars>>

(* _on_event that looks for the end of a track and of the queue before it *)
(* looks for the gapless transition.                                       *)
on_event_stop_first(s, transport_state, uri) ==
  /\ s \in 1..Len(sessions)
  /\ sessions[s].subscribed
  /\ sessions[s].event_handler \in running
  /\ IF transport_state = "" /\ uri = 0
       THEN UNCHANGED <<sessions, tasks>>
       ELSE IF TrackEnded(s, transport_state)
         THEN /\ NumTasks < MaxTasks
              /\ tasks' = Add(tasks, Spawn("_auto_advance", s))
              /\ UNCHANGED sessions
         ELSE IF AlbumFinished(s, transport_state)
           THEN /\ NumTasks < MaxTasks
                /\ tasks' = Add(tasks, Spawn("_cleanup", s))
                /\ UNCHANGED sessions
           ELSE IF GaplessTransition(s, uri)
             THEN /\ NumTasks < MaxTasks
                  /\ sessions' = [sessions EXCEPT
                        ![s].current_index = sessions[s].preloaded_index,
                        ![s].preloaded_index = -1]
                  /\ tasks' = Add(tasks, Spawn("_preload_next", s))
             ELSE UNCHANGED <<sessions, tasks>>
  /\ UNCHANGED <<registry, notify_server, running, device, result, dvars, svars>>

(* The device notifies the session s of its transport state and current    *)
(* track uri ("" and 0: the variable is not in the notification).          *)
on_event(s, transport_state, uri) ==
  /\ s \in 1..Len(sessions)
  /\ sessions[s].subscribed
  /\ sessions[s].event_handler \in running
  /\ IF transport_state = "" /\ uri = 0
       THEN UNCHANGED <<sessions, tasks>>
       ELSE IF GaplessTransition(s, uri)
         THEN /\ NumTasks < MaxTasks
              /\ sessions' = [sessions EXCEPT
                    ![s].current_index = sessions[s].preloaded_index,
                    ![s].preloaded_index = -1]
              /\ tasks' = Add(tasks, Spawn("_preload_next", s))
         ELSE IF TrackEnded(s, transport_state)
           THEN /\ NumTasks < MaxTasks
                /\ tasks' = Add(tasks, Spawn("_auto_advance", s))
                /\ UNCHANGED sessions
           ELSE IF AlbumFinished(s, transport_state)
             THEN /\ NumTasks < MaxTasks
                  /\ tasks' = Add(tasks, Spawn("_cleanup", s))
                  /\ UNCHANGED sessions
             ELSE UNCHANGED <<sessions, tasks>>
  /\ UNCHANGED <<registry, notify_server, running, device, result, dvars, svars>>

(* ---- the tasks _on_event creates ---- *)

preload_next_task(t) ==
  /\ t \in Tasks /\ t.kind = "_preload_next" /\ t.pc = "new"
  /\ preload_next(tasks, t, sessions)
  /\ UNCHANGED <<registry, notify_server, running, dvars, svars>>

(* The body shared by next, previous and _auto_advance once the bounds     *)
(* check has passed: move current_index to i, clear the preload and issue  *)
(* async_set_transport_uri (after the assert on self._dmr).                *)
GoTo(B, t, i) ==
  LET s == t.s
  IN /\ sessions' = [sessions EXCEPT ![s].current_index = i,
                                     ![s].preloaded_index = -1]
     /\ IF sessions[s].dmr
          THEN /\ tasks' = Replace(B, t, [t EXCEPT !.pc = "set_uri", !.track = i])
               /\ device' = Issue(device, Udn(s), "SetAVTransportURI", Url(s, i))
               /\ UNCHANGED result
          ELSE /\ tasks' = Remove(B, t)
               /\ Return(t, "raised")
               /\ UNCHANGED device

(* _auto_advance that sets the current track again instead of the next.    *)
auto_advance_task_replays(t) ==
  /\ t \in Tasks /\ t.kind = "_auto_advance" /\ t.pc = "new"
  /\ IF sessions[t.s].current_index + 1 >= Len_tracks(t.s)
       THEN /\ tasks' = Remove(tasks, t)
            /\ UNCHANGED <<sessions, device, result>>
       ELSE GoTo(tasks, t, sessions[t.s].current_index)
  /\ UNCHANGED <<registry, notify_server, running, dvars, svars>>

auto_advance_task(t) ==
  /\ t \in Tasks /\ t.kind = "_auto_advance" /\ t.pc = "new"
  /\ IF sessions[t.s].current_index + 1 >= Len_tracks(t.s)
       THEN /\ tasks' = Remove(tasks, t)
            /\ UNCHANGED <<sessions, device, result>>
       ELSE GoTo(tasks, t, sessions[t.s].current_index + 1)
  /\ UNCHANGED <<registry, notify_server, running, dvars, svars>>

cleanup_task(t) ==
  /\ t \in Tasks /\ t.kind = "_cleanup" /\ t.pc = "new"
  /\ cleanup(tasks, t, t.s, sessions)
  /\ UNCHANGED <<dvars, svars>>

(* ---- QueueSession.next, QueueSession.previous ---- *)

(* next() that wraps round to the first track at the end of the queue.     *)
next_wraps(udn) ==
  LET s == registry[udn]
      t == [NoTask EXCEPT !.kind = "next", !.s = s, !.pc = "call",
                          !.overlap = Overlaps]
  IN /\ s # None
     /\ NumTasks < MaxTasks
     /\ GoTo(Call(t), t, (sessions[s].current_index + 1) % Len_tracks(s))
     /\ UNCHANGED <<registry, notify_server, running, dvars, svars>>

(* A caller calls next() on the session registered for udn.                *)
next(udn) ==
  LET s == registry[udn]
      t == [NoTask EXCEPT !.kind = "next", !.s = s, !.pc = "call",
                          !.overlap = Overlaps]
  IN /\ s # None
     /\ IF sessions[s].current_index + 1 >= Len_tracks(s)
          THEN /\ Finish("next", s, "absent", -1)
               /\ UNCHANGED <<sessions, tasks, device>>
          ELSE /\ NumTasks < MaxTasks
               /\ GoTo(Call(t), t, sessions[s].current_index + 1)
     /\ UNCHANGED <<registry, notify_server, running, dvars, svars>>

(* A caller calls previous() on the session registered for udn.            *)
previous(udn) ==
  LET s == registry[udn]
      t == [NoTask EXCEPT !.kind = "previous", !.s = s, !.pc = "call",
                          !.overlap = Overlaps]
  IN /\ s # None
     /\ IF sessions[s].current_index <= 0
          THEN /\ Finish("previous", s, "absent", -1)
               /\ UNCHANGED <<sessions, tasks, device>>
          ELSE /\ NumTasks < MaxTasks
               /\ GoTo(Call(t), t, sessions[s].current_index - 1)
     /\ UNCHANGED <<registry, notify_server, running, dvars, svars>>

(* ---- discovery ---- *)

startswith_http(url) == Len(url) > 0 /\ Head(url) = "http"

base_url_from_location(location) == SubSeq(location, 1, 2)

Locations ==
  { <<"http", "//10.0.0.1:1400", "/desc.xml">>,
    <<"http", "//10.0.0.2:8080", "/desc.xml">> }

AVTRANSPORT_TYPE == "urn:schemas-upnp-org:service:AVTransport:1"
RENDERING_CONTROL_TYPE == "urn:schemas-upnp-org:service:RenderingControl:1"

Service(type, control_url) ==
  [serviceType |-> type, controlURL |-> control_url, SCPDURL |-> <<"/scpd.xml">>]

(* What a GET of a location answers.  status 0 stands for a request that   *)
(* raises (refused, timed out); scpd is what the GET of the AVTransport    *)
(* SCPD url answers: "" when it fails or is not XML, else the action the   *)
(* document lists.                                                         *)
Hifi ==
  [ status |-> 200, well_formed |-> TRUE, device |-> TRUE,
    friendlyName |-> <<"H", "i", "f", "i">>, UDN |-> <<"uuid:hifi">>, serviceList |-> TRUE,
    services |-> << Service(AVTRANSPORT_TYPE, <<"/av/control">>),
                    Service(RENDERING_CONTROL_TYPE, <<"/rc/control">>) >>,
    scpd |-> "SetNextAVTransportURI" ]

Docs ==
  { Hifi,
    [Hifi EXCEPT !.status = 0],
    [Hifi EXCEPT !.status = 404],
    [Hifi EXCEPT !.well_formed = FALSE],
    [Hifi EXCEPT !.device = FALSE],
    [Hifi EXCEPT !.UDN = EmptyStr],
    [Hifi EXCEPT !.serviceList = FALSE],
    [Hifi EXCEPT !.services = << Service(RENDERING_CONTROL_TYPE, <<"/rc/control">>) >>],
    [Hifi EXCEPT !.services = << Service(AVTRANSPORT_TYPE, EmptyStr),
                                 Service(RENDERING_CONTROL_TYPE, <<"/rc/control">>) >>],
    [Hifi EXCEPT !.friendlyName = <<"R", "a", "d", "i", "o">>, !.UDN = <<"uuid:radio">>, !.scpd = "Play",
                 !.services = << Service(AVTRANSPORT_TYPE,
                                         <<"http", "//10.0.0.9:49152", "/av">>) >>],
    [Hifi EXCEPT !.services = << Service(AVTRANSPORT_TYPE, <<"/av/control">>),
                                 Service(AVTRANSPORT_TYPE, EmptyStr) >>] }

(* What one _ssdp_search and the GETs that follow it are answered: the     *)
(* locations, without duplicates, each with its document.                  *)
Answers ==
  {<<>>}
  \cup { <<[location |-> l, doc |-> d]>> : l \in Locations, d \in Docs }
  \cup { <<[location |-> a[1], doc |-> d[1]], [location |-> a[2], doc |-> d[2]]>> :
           a \in {b \in Locations \X Locations : b[1] # b[2]}, d \in Docs \X Docs }

check_set_next_support(base_url, scpd_path, scpd) ==
  IF scpd_path = EmptyStr THEN FALSE ELSE scpd = "SetNextAVTransportURI"

(* The loop over the services of the serviceList, from the i-th on.        *)
RECURSIVE ScanServices(_, _, _, _)
ScanServices(doc, base_url, i, found) ==
  IF i > Len(doc.services) THEN found
  ELSE LET service == doc.services[i]
       IN ScanServices(doc, base_url, i + 1,
            IF service.serviceType = AVTRANSPORT_TYPE
              THEN [found EXCEPT
                      !.av_control_url = service.controlURL,
                      !.supports_next =
                         check_set_next_support(base_url, service.SCPDURL, doc.scpd)]
            ELSE IF service.serviceType = RENDERING_CONTROL_TYPE
              THEN [found EXCEPT !.rc_control_url = service.controlURL]
            ELSE found)

Resolve(base_url, url) ==
  IF url # EmptyStr /\ ~startswith_http(url) THEN base_url \o url ELSE url

DlnaRenderer(location, doc, base_url, found) ==
  [ name |-> doc.friendlyName,
    udn |-> doc.UDN,
    location |-> location,
    supports_next |-> found.supports_next,
    av_transport_control_url |-> Resolve(base_url, found.av_control_url),
    rendering_control_url |-> Resolve(base_url, found.rc_control_url),
    base_url |-> base_url ]

(* _fetch_device_description that returns a record whatever its            *)
(* AVTransport control url is.                                             *)
fetch_device_description_keeps_empty(location, doc) ==
  LET base_url == base_url_from_location(location)
      found == ScanServices(doc, base_url, 1,
                 [av_control_url |-> EmptyStr, rc_control_url |-> EmptyStr,
                  supports_next |-> FALSE])
  IN IF doc.status # 200 \/ ~doc.well_formed \/ ~doc.device THEN <<>>
     ELSE IF doc.UDN = EmptyStr \/ ~doc.serviceList THEN <<>>
     ELSE << DlnaRenderer(location, doc, base_url, found) >>

(* _fetch_device_description: <<>> for None, else the one record.          *)
fetch_device_description(location, doc) ==
  LET base_url == base_url_from_location(location)
      found == ScanServices(doc, base_url, 1,
                 [av_control_url |-> EmptyStr, rc_control_url |-> EmptyStr,
                  supports_next |-> FALSE])
  IN IF doc.status # 200 \/ ~doc.well_formed \/ ~doc.device THEN <<>>
     ELSE IF doc.UDN = EmptyStr \/ ~doc.serviceList THEN <<>>
     ELSE IF found.av_control_url = EmptyStr THEN <<>>
     ELSE << DlnaRenderer(location, doc, base_url, found) >>

(* A gather that gives up at the first location without a record.         *)
RECURSIVE Gather_until_failure(_, _)
Gather_until_failure(answer, i) ==
  IF i > Len(answer) THEN <<>>
  ELSE IF fetch_device_description(answer[i].location, answer[i].doc) = <<>> THEN <<>>
  ELSE fetch_device_description(answer[i].location, answer[i].doc)
         \o Gather_until_failure(answer, i + 1)

(* The results of asyncio.gather from the i-th on, DlnaRenderer instances  *)
(* only.                                                                   *)
RECURSIVE Gather(_, _)
Gather(answer, i) ==
  IF i > Len(answer) THEN <<>>
  ELSE fetch_device_description(answer[i].location, answer[i].doc)
         \o Gather(answer, i + 1)

CacheFresh == cache # <<>> /\ (now - cache_time) < CACHE_TTL

(* discover_renderers up to its return of the cache or to its first await. *)
discover_renderers(force) ==
  /\ IF ~force /\ CacheFresh
       THEN /\ returned' = cache
            /\ UNCHANGED <<searches, passes>>
       ELSE /\ searches < MaxSearches /\ passes < MaxPasses
            /\ searches' = searches + 1
            /\ passes' = passes + 1
            /\ UNCHANGED returned
  /\ UNCHANGED <<cache, cache_time, now, network, qvars, svars>>

(* The end of a pass that appends what it found to the cached list.        *)
gather_done_merges(answer) ==
  /\ passes > 0
  /\ passes' = passes - 1
  /\ cache' = cache \o Gather(answer, 1)
  /\ cache_time' = now
  /\ returned' = cache'
  /\ network' = answer
  /\ UNCHANGED <<now, searches, qvars, svars>>

(* The search and the gather of a pass have been answered: the cache is    *)
(* replaced and the new list returned.                                     *)
gather_done(answer) ==
  /\ passes > 0
  /\ passes' = passes - 1
  /\ cache' = Gather(answer, 1)
  /\ cache_time' = now
  /\ returned' = cache'
  /\ network' = answer
  /\ UNCHANGED <<now, searches, qvars, svars>>

TickStep == CACHE_TTL \div 3
MaxTime == 3 * CACHE_TTL

(* Time passes.                                                            *)
Tick ==
  /\ now + TickStep <= MaxTime
  /\ now' = now + TickStep
  /\ UNCHANGED <<cache, cache_time, network, returned, searches, passes, qvars, svars>>

(* ---- find_renderer ---- *)

(* str.lower() on the letters the names and queries are written with.      *)
lower_char(c) ==
  CASE c = "T" -> "t"
    [] c = "V" -> "v"
    [] c = "H" -> "h"
    [] c = "R" -> "r"
    [] OTHER -> c

lower(str) == [i \in 1..Len(str) |-> lower_char(str[i])]

(* sub in str                                                              *)
contains(str, sub) ==
  \E i \in 0..(Len(str) - Len(sub)) : SubSeq(str, i + 1, i + Len(sub)) = sub

(* Devices whose names differ in case and of which one contains the other. *)
NamedDocs ==
  { [Hifi EXCEPT !.friendlyName = <<"T", "v">>, !.UDN = <<"uuid:tv">>],
    [Hifi EXCEPT !.friendlyName = <<"T", "V", "2">>, !.UDN = <<"uuid:tv2">>],
    [Hifi EXCEPT !.status = 404],
    Hifi }

NamedAnswers ==
  {<<>>}
  \cup { <<[location |-> l, doc |-> d]>> : l \in Locations, d \in NamedDocs }
  \cup { <<[location |-> a[1], doc |-> d[1]], [location |-> a[2], doc |-> d[2]]>> :
           a \in {b \in Locations \X Locations : b[1] # b[2]},
           d \in NamedDocs \X NamedDocs }

Queries == { <<"t", "v">>, <<"T", "V", "2">>, <<"V">>, <<"x">> }

FirstIndex(I) == CHOOSE i \in I : \A j \in I : i <= j

(* The two loops of find_renderer that return the first substring match,   *)
(* with no pass for exact matches.                                         *)
Matching_substring_only(renderers, name) ==
  LET name_lower == lower(name)
      sub == { i \in 1..Len(renderers) :
                 contains(lower(renderers[i].name), name_lower) }
  IN IF sub # {} THEN << renderers[FirstIndex(sub)] >>
     ELSE <<>>

(* The two loops of find_renderer over the list discover_renderers         *)
(* returned: <<>> for None, else the one record.                           *)
Matching(renderers, name) ==
  LET name_lower == lower(name)
      exact == { i \in 1..Len(renderers) :
                   lower(renderers[i].name) = name_lower }
      sub == { i \in 1..Len(renderers) :
                 contains(lower(renderers[i].name), name_lower) }
  IN IF exact # {} THEN << renderers[FirstIndex(exact)] >>
     ELSE IF sub # {} THEN << renderers[FirstIndex(sub)] >>
     ELSE <<>>

NoPayload == [json |-> FALSE, list |-> FALSE, items |-> <<>>]

NoLookup == [tool |-> "", name |-> <<>>, payload |-> NoPayload]

NoReply == [tool |-> "", outcome |-> "", index |-> -1, total_tracks |-> -1,
            title |-> -1, volume |-> -1]

NoReport == [state |-> "", track |-> -1, total_tracks |-> -1, title |-> -1]

(* The result of a tool that carries only a message.                      *)
Answer(tool, outcome) == [NoReply EXCEPT !.tool = tool, !.outcome = outcome]

(* ---- the tool play_tracks ---- *)

(* What json.loads makes of the tracks argument: json tells whether it     *)
(* parses, list whether it is an array; an item is a dict or not, and its  *)
(* url is 0 when the key is missing or its value empty.                    *)
Item(url, title) == [dict |-> TRUE, url |-> url, title |-> title]
NotADict == [dict |-> FALSE, url |-> 0, title |-> 0]

Array(items) == [json |-> TRUE, list |-> TRUE, items |-> items]

Payloads ==
  { NoPayload,
    [json |-> TRUE, list |-> FALSE, items |-> <<>>],
    Array(<<>>),
    Array(<< Item(1, 1) >>),
    Array(<< Item(1, 1), Item(2, 2) >>),
    Array(<< Item(0, 1) >>),
    Array(<< NotADict >>),
    Array(<< Item(1, 1), Item(0, 2) >>) }

(* The fields of the dataclass Track and the keywords the tool passes to   *)
(* it: a keyword that is no field makes Track(...) raise TypeError.        *)
TrackFields == {"url", "title", "artist", "album", "art_url"}
TrackKeywords == {"url", "title", "artist", "album", "art_url", "media_type"}

(* The loop that builds track_objects, from the i-th item on.              *)
RECURSIVE BuildTracks(_, _, _)
BuildTracks(items, i, track_objects) ==
  IF i > Len(items)
    THEN [outcome |-> "built", index |-> -1, tracks |-> track_objects]
  ELSE IF ~items[i].dict \/ items[i].url = 0
    THEN [outcome |-> "missing url", index |-> i - 1, tracks |-> track_objects]
  ELSE IF ~(TrackKeywords \subseteq TrackFields)
    THEN [outcome |-> "TypeError", index |-> i - 1, tracks |-> track_objects]
  ELSE BuildTracks(items, i + 1, Append(track_objects, items[i].url))

(* The renderer record as the queue manager's model names it.              *)
QueueRenderer(renderer) ==
  [ udn |-> IF renderer.udn = <<"uuid:tv">> THEN 1 ELSE 2,
    supports_next |-> renderer.supports_next,
    rendering_control_url |-> renderer.rendering_control_url ]

(* queue_manager.play_tracks(renderer, track_objects), called by the tool: *)
(* up to the first await.                                                  *)
play_tracks_called(renderer, trk) ==
  LET existing == registry[renderer.udn]
      t == [NoTask EXCEPT !.kind = "play_tracks", !.pc = "call",
                          !.renderer = renderer, !.tracks = trk,
                          !.existing = existing, !.overlap = Overlaps]
      B == Call(t)
  IN /\ NumTasks < MaxTasks
     /\ IF existing = None
          THEN CreateAndStart(B, t, sessions, registry, notify_server, running)
          ELSE IF sessions[existing].dmr
            THEN /\ tasks' = Replace(B, t, [t EXCEPT !.pc = "stop"])
                 /\ device' = Issue(device, renderer.udn, "Stop", 0)
                 /\ UNCHANGED <<sessions, registry, notify_server, running, result>>
            ELSE cleanup(B, t, existing, sessions)

(* The tool play_tracks from the return of find_renderer on.  Its result   *)
(* is the error it returns, the exception that leaves it, or, once it has  *)
(* called queue_manager.play_tracks, the success result it holds ready for *)
(* the return of that call.                                                *)
play_tracks_resumed(renderer, payload) ==
  LET built == BuildTracks(payload.items, 1, <<>>)
  IN IF renderer = <<>>
       THEN reply' = Answer("play_tracks", "Renderer not found") /\ UNCHANGED qvars
     ELSE IF ~payload.json
       THEN reply' = Answer("play_tracks", "Invalid tracks JSON") /\ UNCHANGED qvars
     ELSE IF ~payload.list \/ payload.items = <<>>
       THEN /\ reply' = Answer("play_tracks", "tracks must be a non-empty JSON array")
            /\ UNCHANGED qvars
     ELSE IF built.outcome = "missing url"
       THEN /\ reply' = [Answer("play_tracks", "missing url") EXCEPT !.index = built.index]
            /\ UNCHANGED qvars
     ELSE IF built.outcome = "TypeError"
       THEN reply' = Answer("play_tracks", "raised TypeError") /\ UNCHANGED qvars
     ELSE /\ play_tracks_called(QueueRenderer(renderer[1]), built.tracks)
          /\ reply' = [Answer("play_tracks", "success") EXCEPT
                         !.total_tracks = Len(built.tracks),
                         !.title = payload.items[1].title]

(* What follows `renderers = await discover_renderers()` in the call of    *)
(* find_renderer made for tool.                                            *)
Resume(tool, name, payload, renderers) ==
  /\ resolved' = Matching(renderers, name)
  /\ IF tool = "play_tracks"
       THEN play_tracks_resumed(Matching(renderers, name), payload)
       ELSE UNCHANGED <<reply, qvars>>
  /\ UNCHANGED <<report, forwarded>>

(* find_renderer(name) called for tool: discover_renderers() returns the   *)
(* cache at once or starts a pass and awaits it.                           *)
Lookup(tool, name, payload) ==
  /\ lookup = NoLookup
  /\ IF CacheFresh
       THEN /\ returned' = cache
            /\ Resume(tool, name, payload, cache)
            /\ UNCHANGED <<lookup, searches>>
       ELSE /\ searches < MaxSearches
            /\ searches' = searches + 1
            /\ lookup' = [tool |-> tool, name |-> name, payload |-> payload]
            /\ UNCHANGED <<returned, resolved, reply, report, forwarded, qvars>>
  /\ UNCHANGED <<cache, cache_time, now, network, passes>>

find_renderer(name) == Lookup("find_renderer", name, NoPayload)

(* The tool play_tracks is called: it awaits find_renderer first.          *)
play_tracks_tool(name, payload) == Lookup("play_tracks", name, payload)

(* The pass find_renderer awaits has been answered: discover_renderers     *)
(* replaces the cache and returns the new list, and find_renderer goes on. *)
lookup_done(answer) ==
  /\ lookup # NoLookup
  /\ cache' = Gather(answer, 1)
  /\ cache_time' = now
  /\ returned' = cache'
  /\ network' = answer
  /\ lookup' = NoLookup
  /\ Resume(lookup.tool, lookup.name, lookup.payload, cache')
  /\ UNCHANGED <<now, searches, passes>>

(* ---- the tools set_volume and get_status ---- *)

min(a, b) == IF a <= b THEN a ELSE b
max(a, b) == IF a >= b THEN a ELSE b

Volumes == {-250, -1, 0, 37, 100, 101, 250}

(* The clamp without its lower bound.                                      *)
clamp_upper_only(volume) == min(100, volume)

(* volume = max(0, min(100, volume))                                       *)
clamp(volume) == max(0, min(100, volume))

(* The tool set_volume once find_renderer has returned the renderer udn:   *)
(* up to the await in QueueSession.set_volume, which raises at once when   *)
(* the session has no device handle.                                       *)
set_volume(udn, volume) ==
  LET s == registry[udn]
      level == clamp(volume)
      t == [NoTask EXCEPT !.kind = "set_volume", !.s = s, !.pc = "set_volume",
                          !.volume = level, !.volume_level = <<level, 100>>]
  IN /\ IF s = None
          THEN /\ reply' = Answer("set_volume", "No active playback")
               /\ UNCHANGED <<tasks, forwarded>>
          ELSE /\ forwarded' = level
               /\ IF sessions[s].dmr
                    THEN /\ NumTasks < MaxTasks
                         /\ tasks' = Add(tasks, t)
                         /\ UNCHANGED reply
                    ELSE /\ reply' = Answer("set_volume", "Failed to set volume")
                         /\ UNCHANGED tasks
     /\ UNCHANGED <<sessions, registry, notify_server, running, device, result,
                    lookup, resolved, report, dvars>>

(* async_set_volume_level is acknowledged or fails.                        *)
set_volume_done(t, ok) ==
  /\ t \in Tasks /\ t.kind = "set_volume" /\ t.pc = "set_volume"
  /\ tasks' = Remove(tasks, t)
  /\ reply' = IF ok THEN [Answer("set_volume", "success") EXCEPT !.volume = t.volume]
                    ELSE Answer("set_volume", "Failed to set volume")
  /\ UNCHANGED <<sessions, registry, notify_server, running, device, result,
                 lookup, resolved, report, forwarded, dvars>>

(* QueueSession.status() that reports the index of the track, from 0.      *)
status_from_zero(s) ==
  [ state |-> IF sessions[s].dmr THEN "playing" ELSE "stopped",
    track |-> sessions[s].current_index,
    total_tracks |-> Len(sessions[s].tracks),
    title |-> sessions[s].tracks[sessions[s].current_index + 1] ]

(* QueueSession.status(): tracks is never empty, and a track's title is    *)
(* told by the track.                                                      *)
status(s) ==
  [ state |-> IF sessions[s].dmr THEN "playing" ELSE "stopped",
    track |-> sessions[s].current_index + 1,
    total_tracks |-> Len(sessions[s].tracks),
    title |-> sessions[s].tracks[sessions[s].current_index + 1] ]

(* The tool get_status once find_renderer has returned the renderer udn.   *)
get_status(udn) ==
  /\ report' = IF registry[udn] = None
                 THEN [NoReport EXCEPT !.state = "idle"]
                 ELSE status(registry[udn])
  /\ UNCHANGED <<qvars, dvars, lookup, resolved, reply, forwarded>>

(* ---- the queue manager ---- *)

NoResult == [kind |-> "", outcome |-> "", track |-> -1]

Init ==
  /\ sessions = <<>>
  /\ registry = [u \in UDNs |-> None]
  /\ notify_server = None
  /\ running = {}
  /\ tasks = EmptyBag
  /\ device = [u \in UDNs |-> [uri |-> 0, next_uri |-> 0]]
  /\ result = NoResult
  /\ cache = <<>>
  /\ cache_time = 0
  /\ now = CACHE_TTL
  /\ network = <<>>
  /\ returned = <<>>
  /\ searches = 0
  /\ passes = 0
  /\ lookup = NoLookup
  /\ resolved = <<>>
  /\ reply = NoReply
  /\ report = NoReport
  /\ forwarded = -1

(* The sessions created so far and those a play_tracks call is about to    *)
(* create.                                                                 *)
Created ==
  Len(sessions)
    + BagCardinality(BagOfAll(LAMBDA t : t.kind,
         [t \in { x \in Tasks : x.kind = "play_tracks" /\ x.s = None } |-> tasks[t]]))

(* stop() after its first await, and _shutdown_infrastructure.  Outcomes   *)
(* is how an awaited call may end: TRUE acknowledged, FALSE failed.        *)
StopSteps(Outcomes) ==
  \/ \E t \in Tasks, ok \in Outcomes : stop_done(t, ok)
  \/ \E t \in Tasks, ok \in Outcomes : unsubscribe_done(t, ok)
  \/ \E t \in Tasks : stop_server_done(t)

(* start() after its first await, and the commands next, previous and      *)
(* _auto_advance share with it.                                            *)
StartSteps(Outcomes) ==
  \/ \E t \in Tasks : start_server_done(t)
  \/ \E t \in Tasks, ok \in Outcomes : create_device_done(t, ok)
  \/ \E t \in Tasks, ok \in Outcomes : subscribe_done(t, ok)
  \/ \E t \in Tasks, ok \in Outcomes : set_uri_done(t, ok)
  \/ \E t \in Tasks, ok \in Outcomes : play_done(t, ok)

Events ==
  \E s \in 1..Len(sessions), st \in TransportStates, uri \in URIs :
     on_event(s, st, uri)

(* One device and the life of the sessions on it: every operation of the   *)
(* queue manager, at most MaxSessions sessions and MaxTasks coroutines.    *)
Session(Outcomes) ==
  \/ \E r \in Renderers, trk \in TrackLists :
        Created < MaxSessions /\ play_tracks(r, trk)
  \/ StopSteps(Outcomes)
  \/ StartSteps(Outcomes)
  \/ \E t \in Tasks, ok \in Outcomes : set_next_done(t, ok)
  \/ Events
  \/ \E t \in Tasks : preload_next_task(t)
  \/ \E t \in Tasks : auto_advance_task(t)
  \/ \E t \in Tasks : cleanup_task(t)
  \/ \E u \in UDNs : next(u)
  \/ \E u \in UDNs : previous(u)
  \/ \E u \in UDNs : stop(u)

Next == Session(BOOLEAN)

Spec == Init /\ [][Next]_vars

(* The same, where the device acknowledges every command.                  *)
NextAcked == Session({TRUE})

SpecAcked == Init /\ [][NextAcked]_vars

(* The registry under repeated and concurrent play_tracks calls for one    *)
(* renderer: single-track queues, at most MaxReplays sessions.             *)
ReplayRenderers ==
  { [udn |-> 1, supports_next |-> FALSE, rendering_control_url |-> RcUrl] }
ReplayLists == { <<1>> }

Replay ==
  \/ \E r \in ReplayRenderers, trk \in ReplayLists :
        Created < MaxReplays /\ play_tracks(r, trk)
  \/ StopSteps(BOOLEAN)
  \/ StartSteps(BOOLEAN)

(* play_tracks calls only: no event reaches a session.                     *)
NextRace == Replay

SpecRace == Init /\ [][NextRace]_vars

NextReplay ==
  \/ Replay
  \/ Events
  \/ \E t \in Tasks : cleanup_task(t)

SpecReplay == Init /\ [][NextReplay]_vars

(* ---- claims ---- *)

NextDiscovery ==
  \/ \E force \in BOOLEAN : discover_renderers(force)
  \/ \E answer \in Answers : gather_done(answer)
  \/ Tick

SpecDiscovery == Init /\ [][NextDiscovery]_vars

NextServer ==
  \/ \E name \in Queries : find_renderer(name)
  \/ \E answer \in NamedAnswers : lookup_done(answer)
  \/ \E force \in BOOLEAN : discover_renderers(force)
  \/ \E answer \in NamedAnswers : gather_done(answer)
  \/ Tick

SpecServer == Init /\ [][NextServer]_vars

(* Calls of the tool play_tracks against a network on which at most one    *)
(* device answers a search.                                                *)
OneDeviceAnswers == { answer \in NamedAnswers : Len(answer) <= 1 }

NextPlayTool ==
  \/ \E name \in Queries, payload \in Payloads : play_tracks_tool(name, payload)
  \/ \E answer \in OneDeviceAnswers : lookup_done(answer)
  \/ Tick

SpecPlayTool == Init /\ [][NextPlayTool]_vars

PairRenderers ==
  { [udn |-> u, supports_next |-> FALSE, rendering_control_url |-> RcUrl] : u \in UDNs }

(* Two devices with a single-track queue each: sessions that are           *)
(* registered side by side, stopped by callers and finished by events.     *)
NextPair ==
  \/ \E r \in PairRenderers, trk \in ReplayLists :
        Created < MaxPairSessions /\ play_tracks(r, trk)
  \/ StartSteps({TRUE})
  \/ StopSteps({TRUE})
  \/ \E u \in UDNs : stop(u)
  \/ \E s \in 1..Len(sessions) : on_event(s, "STOPPED", 0)
  \/ \E t \in Tasks : cleanup_task(t)

SpecPair == Init /\ [][NextPair]_vars

(* One device and the sessions on it, each stopped as often as its holder  *)
(* likes.                                                                  *)
NextStopTwice ==
  \/ \E r \in ReplayRenderers, trk \in ReplayLists :
        Created < MaxSessions /\ play_tracks(r, trk)
  \/ StartSteps(BOOLEAN)
  \/ StopSteps(BOOLEAN)
  \/ \E u \in UDNs : stop(u)
  \/ \E s \in 1..Len(sessions) : stop_again(s)

SpecStopTwice == Init /\ [][NextStopTwice]_vars

ToolLists == { <<1>>, <<1, 2>> }

(* The records of one device without gapless support: with a rendering     *)
(* control url and without.                                                *)
ToolRenderers ==
  { [udn |-> 1, supports_next |-> FALSE, rendering_control_url |-> url] :
      url \in {EmptyStr, RcUrl} }

(* One device without gapless support, its sessions and the tools that     *)
(* read a session or set its volume; no event is delivered.                *)
NextTools ==
  \/ \E r \in ToolRenderers, trk \in ToolLists :
        Created < MaxSessions /\ play_tracks(r, trk)
  \/ StartSteps({TRUE})
  \/ StopSteps({TRUE})
  \/ \E u \in UDNs : next(u)
  \/ \E u \in UDNs : previous(u)
  \/ \E u \in UDNs : stop(u)
  \/ \E u \in UDNs, v \in Volumes : set_volume(u, v)
  \/ \E t \in Tasks, ok \in BOOLEAN : set_volume_done(t, ok)
  \/ \E u \in UDNs : get_status(u)

SpecTools == Init /\ [][NextTools]_vars

SessionIds == 1..Len(sessions)

(* start() has built the device handle of s and no teardown of s has run.  *)
Live(s) == sessions[s].dmr /\ ~sessions[s].torn

(* C1: under any interleaving of concurrent play_tracks calls for one      *)
(* renderer identity, every session that has been started and not stopped  *)
(* is the one the registry maps the identity to (so there are never two).  *)
C1_OneLiveSessionPerIdentity ==
  \A s \in SessionIds : Live(s) => registry[Udn(s)] = s

Gapless(s) == sessions[s].renderer.supports_next

(* C3: on a gapless renderer with a queue of at least 3 tracks, a start()  *)
(* no other caller overlaps ends with preloaded_index = 1; an event whose  *)
(* uri is the preloaded track's url moves current_index to the preloaded   *)
(* index, clears the preload and issues no command itself; the task it     *)
(* creates issues SetNextAVTransportURI for current_index + 1 and no       *)
(* SetAVTransportURI, and its acknowledgement records that index.          *)
C3_GaplessAdvance ==
  [][ /\ \A t \in Tasks :
           ( /\ t.kind = "play_tracks" /\ ~t.overlap
             /\ Len(t.tracks) >= 3 /\ t.renderer.supports_next
             /\ set_next_done(t, TRUE) ) =>
             /\ sessions'[t.s].preloaded_index = 1
             /\ sessions'[t.s].current_index = 0
      /\ \A s \in SessionIds, st \in TransportStates, uri \in URIs :
           ( /\ Gapless(s) /\ Len_tracks(s) >= 3
             /\ GaplessTransition(s, uri)
             /\ on_event(s, st, uri) ) =>
             /\ sessions'[s].current_index = sessions[s].preloaded_index
             /\ sessions'[s].preloaded_index = -1
             /\ tasks' = Add(tasks, Spawn("_preload_next", s))
             /\ device' = device
      /\ \A t \in Tasks :
           ( /\ t.kind = "_preload_next" /\ Len_tracks(t.s) >= 3
             /\ sessions[t.s].current_index + 1 < Len_tracks(t.s)
             /\ preload_next_task(t) ) =>
             /\ tasks' = Replace(tasks, t,
                   [t EXCEPT !.pc = "set_next",
                             !.next_idx = sessions[t.s].current_index + 1])
             /\ device'[Udn(t.s)].uri = device[Udn(t.s)].uri
             /\ device'[Udn(t.s)].next_uri = Url(t.s, sessions[t.s].current_index + 1)
      /\ \A t \in Tasks :
           (t.kind = "_preload_next" /\ set_next_done(t, TRUE)) =>
             /\ sessions'[t.s].preloaded_index = t.next_idx
             /\ device' = device
    ]_vars

(* C3 witness: a 3-track gapless session has moved to track 1 and          *)
(* preloaded track 2 while the last SetAVTransportURI issued is still the  *)
(* one for track 0.                                                        *)
C3_Witness ==
  \E s \in SessionIds :
    /\ registry[Udn(s)] = s /\ Gapless(s) /\ Len_tracks(s) = 3
    /\ sessions[s].current_index = 1
    /\ sessions[s].preloaded_index = 2
    /\ device[Udn(s)].uri = Url(s, 0)
    /\ device[Udn(s)].next_uri = Url(s, 2)
    /\ tasks = EmptyBag

NonGaplessStop(s, st, uri) ==
  /\ st = "STOPPED" /\ ~Gapless(s) /\ ~GaplessTransition(s, uri)

(* C4: on a renderer without gapless support, a STOPPED event below the    *)
(* last index creates the _auto_advance task; the task moves current_index *)
(* from i to i + 1 and issues SetAVTransportURI for track i + 1, and play  *)
(* is issued when that is acknowledged.                                    *)
C4_AutoAdvance ==
  [][ /\ \A s \in SessionIds, st \in TransportStates, uri \in URIs :
           ( /\ NonGaplessStop(s, st, uri)
             /\ sessions[s].current_index < Len_tracks(s) - 1
             /\ on_event(s, st, uri) ) =>
             /\ tasks' = Add(tasks, Spawn("_auto_advance", s))
             /\ sessions' = sessions /\ device' = device
      /\ \A t \in Tasks :
           ( /\ t.kind = "_auto_advance"
             /\ sessions[t.s].current_index < Len_tracks(t.s) - 1
             /\ auto_advance_task(t) ) =>
             LET i == sessions[t.s].current_index
             IN /\ sessions'[t.s].current_index = i + 1
                /\ device'[Udn(t.s)].uri = Url(t.s, i + 1)
                /\ tasks' = Replace(tasks, t,
                      [t EXCEPT !.pc = "set_uri", !.track = i + 1])
      /\ \A t \in Tasks :
           (t.kind = "_auto_advance" /\ set_uri_done(t, TRUE)) =>
             /\ tasks' = Replace(tasks, t, [t EXCEPT !.pc = "play"])
             /\ sessions' = sessions
    ]_vars

(* C4 witness: a 2-track session without gapless support is at track 1,    *)
(* track 1 is the last uri set, and no caller but play_tracks has run.     *)
C4_Witness ==
  \E s \in SessionIds :
    /\ registry[Udn(s)] = s /\ ~Gapless(s) /\ Len_tracks(s) = 2
    /\ sessions[s].current_index = 1
    /\ device[Udn(s)].uri = Url(s, 1)
    /\ result.kind = "play_tracks" /\ result.outcome = "returned"
    /\ tasks = EmptyBag

(* C5: a STOPPED event at the last index (its uri not that of a preloaded  *)
(* track) creates the _cleanup task, and when the task has run the session *)
(* is torn down and is not in the registry.                                *)
C5_QueueFinished ==
  [][ /\ \A s \in SessionIds, uri \in URIs :
           ( /\ ~GaplessTransition(s, uri)
             /\ sessions[s].current_index = Len_tracks(s) - 1
             /\ on_event(s, "STOPPED", uri) ) =>
             tasks' = Add(tasks, Spawn("_cleanup", s))
      /\ \A t \in Tasks :
           (t.kind = "_cleanup" /\ cleanup_task(t)) =>
             /\ sessions'[t.s].torn
             /\ \A u \in UDNs : registry'[u] # t.s
    ]_vars

(* C5 witness: a session that was registered and playing its last track    *)
(* has been torn down by the task, not by stop(), and the registry is      *)
(* empty.                                                                  *)
C5_Witness ==
  \E s \in SessionIds :
    /\ sessions[s].subscribed /\ sessions[s].torn /\ ~sessions[s].stopped
    /\ sessions[s].current_index = Len_tracks(s) - 1
    /\ Len_tracks(s) > 1
    /\ \A u \in UDNs : registry[u] = None
    /\ tasks = EmptyBag

(* C6: next() at the last index and previous() at index 0 return None,     *)
(* leave the session, the registry and the running coroutines as they are  *)
(* and issue no command.                                                   *)
C6_SkipAtBoundary ==
  [][ /\ \A u \in UDNs :
           ( /\ registry[u] # None
             /\ sessions[registry[u]].current_index = Len_tracks(registry[u]) - 1
             /\ next(u) ) =>
             /\ result' = [kind |-> "next", outcome |-> "absent", track |-> -1]
             /\ UNCHANGED <<sessions, registry, tasks, device>>
      /\ \A u \in UDNs :
           ( /\ registry[u] # None
             /\ sessions[registry[u]].current_index = 0
             /\ previous(u) ) =>
             /\ result' = [kind |-> "previous", outcome |-> "absent", track |-> -1]
             /\ UNCHANGED <<sessions, registry, tasks, device>>
    ]_vars

(* C6 witness: next() has returned None on a started 3-track session      *)
(* whose current track, the last set on the device, is its last.           *)
C6_Witness ==
  \E s \in SessionIds :
    /\ registry[Udn(s)] = s /\ sessions[s].dmr /\ Len_tracks(s) = 3
    /\ sessions[s].current_index = 2
    /\ device[Udn(s)].uri = Url(s, 2)
    /\ result = [kind |-> "next", outcome |-> "absent", track |-> -1]

(* C7: the current_index of every session that is not torn down is an      *)
(* index of its track list.                                                *)
C7_IndexInRange ==
  \A s \in SessionIds :
    ~sessions[s].torn =>
      /\ sessions[s].current_index >= 0
      /\ sessions[s].current_index < Len_tracks(s)

(* C7 witness: a session is at its last track, which a gapless transition  *)
(* reached, while the task of that transition has its preload to do.       *)
C7_Witness ==
  \E t \in Tasks :
    /\ t.kind = "_preload_next" /\ t.pc = "new"
    /\ ~sessions[t.s].torn /\ Len_tracks(t.s) = 3
    /\ sessions[t.s].current_index = 2
    /\ device[Udn(t.s)].uri = Url(t.s, 0)

(* C8: in every reachable state preloaded_index is None or                 *)
(* current_index + 1.                                                      *)
C8_PreloadIsNext ==
  \A s \in SessionIds :
    \/ sessions[s].preloaded_index = -1
    \/ sessions[s].preloaded_index = sessions[s].current_index + 1

(* C9: a discover_renderers(force = False) call made less than CACHE_TTL    *)
(* after a pass was completed makes no search and returns the cached       *)
(* list, whatever that pass found.                                         *)
C9_OneSearchPerWindow ==
  [][ ((now - cache_time) < CACHE_TTL /\ discover_renderers(FALSE)) =>
        /\ searches' = searches
        /\ passes' = passes
        /\ returned' = cache
        /\ cache' = cache
    ]_vars

(* C10: no record of the cache or of a returned list has an empty          *)
(* AVTransport control url.                                                *)
C10_NoEmptyControlUrl ==
  /\ \A i \in 1..Len(cache) : cache[i].av_transport_control_url # EmptyStr
  /\ \A i \in 1..Len(returned) : returned[i].av_transport_control_url # EmptyStr

(* C10 witness: a pass was answered by a device whose AVTransport service  *)
(* has no control url and by one that has, and the list it cached and      *)
(* returned holds the second alone.                                        *)
C10_Witness ==
  /\ Len(network) = 2
  /\ network[1].doc.status = 200
  /\ \E i \in 1..Len(network[1].doc.services) :
       /\ network[1].doc.services[i].serviceType = AVTRANSPORT_TYPE
       /\ network[1].doc.services[i].controlURL = EmptyStr
  /\ Len(cache) = 1 /\ cache[1].location = network[2].location
  /\ returned = cache

ExactAt(renderers, name) ==
  { i \in 1..Len(renderers) : lower(renderers[i].name) = lower(name) }

SubstringAt(renderers, name) ==
  { i \in 1..Len(renderers) : contains(lower(renderers[i].name), lower(name)) }

IsResolution(renderers, name, answer) ==
  IF ExactAt(renderers, name) # {}
    THEN answer = << renderers[FirstIndex(ExactAt(renderers, name))] >>
  ELSE IF SubstringAt(renderers, name) # {}
    THEN answer = << renderers[FirstIndex(SubstringAt(renderers, name))] >>
  ELSE answer = <<>>

(* C11: find_renderer(name) returns, comparing in lower case, the first    *)
(* record of the list discover_renderers(force = False) returned whose     *)
(* name equals the query, else the first whose name contains it, else      *)
(* None.                                                                   *)
C11_Resolve ==
  [][ /\ \A name \in Queries :
           (CacheFresh /\ find_renderer(name)) =>
             /\ returned' = cache
             /\ IsResolution(returned', name, resolved')
      /\ (lookup.tool = "find_renderer" /\ lookup' = NoLookup) =>
           /\ returned' = cache'
           /\ IsResolution(returned', lookup.name, resolved')
    ]_vars

(* C11 witness: the list holds "TV2" before "Tv" and find_renderer has     *)
(* returned the second record, which only a query equal to its name does.  *)
C11_Witness ==
  /\ Len(returned) = 2
  /\ returned[1].name = <<"T", "V", "2">>
  /\ returned[2].name = <<"T", "v">>
  /\ resolved = << returned[2] >>

(* C12: the tool set_volume passes to the session of the renderer, and     *)
(* reports when the device acknowledges, 0 for a volume below 0, 100 for a *)
(* volume above 100 and the volume itself from 0 to 100.                   *)
C12_VolumeClamped ==
  [][ /\ \A u \in UDNs, v \in Volumes :
           (registry[u] # None /\ set_volume(u, v)) =>
             /\ v < 0 => forwarded' = 0
             /\ v > 100 => forwarded' = 100
             /\ (v >= 0 /\ v <= 100) => forwarded' = v
             /\ sessions[registry[u]].dmr =>
                  \E t \in BagToSet(tasks') :
                    /\ t.kind = "set_volume" /\ t.volume = forwarded'
                    /\ tasks' = Add(tasks, t)
      /\ \A t \in Tasks :
           (t.kind = "set_volume" /\ set_volume_done(t, TRUE)) =>
             /\ reply'.outcome = "success"
             /\ reply'.volume = t.volume
    ]_vars

(* C12 witness: the tool has answered success with volume 100 for the      *)
(* registered, started session, 100 being the volume last passed to it.    *)
C12_Witness ==
  \E u \in UDNs :
    /\ registry[u] # None /\ sessions[registry[u]].dmr
    /\ reply.tool = "set_volume" /\ reply.outcome = "success"
    /\ reply.volume = 100 /\ forwarded = 100

(* C13: an event that reports STOPPED with the url of the preloaded track  *)
(* as its uri is handled as the gapless transition alone: current_index    *)
(* becomes the preloaded index and the one task created is _preload_next;  *)
(* no _cleanup and no _auto_advance task is created, the registry is       *)
(* unchanged and no command is issued, the preloaded track being the last  *)
(* of the queue or not.                                                    *)
C13_GaplessBeforeStop ==
  [][ \A s \in SessionIds, uri \in URIs :
        ( /\ uri # 0
          /\ sessions[s].preloaded_index # -1
          /\ uri = Url(s, sessions[s].preloaded_index)
          /\ on_event(s, "STOPPED", uri) ) =>
          /\ sessions'[s].current_index = sessions[s].preloaded_index
          /\ sessions'[s].torn = sessions[s].torn
          /\ tasks' = Add(tasks, Spawn("_preload_next", s))
          /\ registry' = registry
          /\ device' = device
          /\ notify_server' = notify_server /\ running' = running
    ]_vars

(* C13 witness: a 2-track gapless session has moved to its last track by   *)
(* the transition, track 0 being the last uri set: it is registered and    *)
(* not torn down, and the one task is the _preload_next of the transition. *)
C13_Witness ==
  \E s \in SessionIds :
    /\ registry[Udn(s)] = s /\ Gapless(s) /\ Len_tracks(s) = 2
    /\ sessions[s].current_index = 1 /\ sessions[s].preloaded_index = -1
    /\ ~sessions[s].torn
    /\ device[Udn(s)].uri = Url(s, 0)
    /\ tasks = SetToBag({Spawn("_preload_next", s)})

(* The number of coroutines of B that await async_stop_server.             *)
Releases(B) ==
  BagCardinality([t \in {u \in BagToSet(B) : u.pc = "stop_server"} |-> CopiesIn(t, B)])

(* The renderers other than that of e for which a session is registered.   *)
Remaining(e) == { u \in UDNs : u # Udn(e) /\ registry[u] # None }

TornDown(e) ==
  /\ \A u \in UDNs : registry'[u] # e
  /\ IF Remaining(e) = {}
       THEN notify_server # None =>
              /\ Releases(tasks') = Releases(tasks) + 1
              /\ \A u \in UDNs : registry'[u] = None
       ELSE /\ Releases(tasks') = Releases(tasks)
            /\ running' = running
            /\ notify_server # None => notify_server' = notify_server

C15_SecondStopIssuesNothing ==
  [][ \A s \in SessionIds :
        (sessions[s].stopped /\ stop_again(s)) =>
          \A t \in BagToSet(tasks') :
            (t.kind = "stop" /\ t.existing = s) => t.pc \notin {"stop", "unsubscribe"}
    ]_vars

(* The coroutines of the session s that await the acknowledgement of       *)
(* async_set_transport_uri or of the async_play that follows it.           *)
InFlight(s) ==
  BagCardinality([t \in {u \in Tasks : u.s = s /\ u.pc \in {"set_uri", "play"}}
                    |-> CopiesIn(t, tasks)])

(* C16: no session has two coroutines at once that await the               *)
(* acknowledgement of a SetAVTransportURI or of its Play.                   *)
C16_OneTransportCommandInFlight ==
  \A s \in SessionIds : InFlight(s) <= 1

(* C17: while the command of one _auto_advance of a session is not         *)
(* acknowledged, the task of a second STOPPED notification neither moves   *)
(* current_index nor issues a SetAVTransportURI.                            *)
C17_DuplicateStopAdvancesOnce ==
  [][ \A t \in Tasks :
        ( /\ t.kind = "_auto_advance" /\ t.pc = "new"
          /\ \E u \in Tasks : /\ u.kind = "_auto_advance" /\ u.s = t.s
                              /\ u.pc \in {"set_uri", "play"}
          /\ auto_advance_task(t) ) =>
          /\ sessions'[t.s].current_index = sessions[t.s].current_index
          /\ device' = device
    ]_vars

(* C18: status() of the registered session changes neither sessions,       *)
(* registry, notify server, coroutines nor the commands issued, and        *)
(* reports track = current_index + 1, total_tracks = len(tracks), the      *)
(* title of tracks[current_index] and the state "playing" exactly when the *)
(* session holds a device handle, "stopped" otherwise.                     *)
C18_StatusIsPureRead ==
  [][ \A u \in UDNs :
        (registry[u] # None /\ get_status(u)) =>
          LET session == sessions[registry[u]]
          IN /\ UNCHANGED <<sessions, registry, notify_server, running, tasks,
                            device, result>>
             /\ report'.track = session.current_index + 1
             /\ report'.total_tracks = Len(session.tracks)
             /\ report'.title = session.tracks[session.current_index + 1]
             /\ report'.state \in {"playing", "stopped"}
             /\ report'.state = "playing" <=> session.dmr
    ]_vars

(* C18 witness: status() has reported track 2 of 2, playing, for the       *)
(* registered session, which is at index 1 and holds its device handle.    *)
C18_Witness ==
  \E u \in UDNs :
    /\ registry[u] # None
    /\ sessions[registry[u]].current_index = 1 /\ sessions[registry[u]].dmr
    /\ report = [state |-> "playing", track |-> 2, total_tracks |-> 2, title |-> 2]

(* An item of the track list that has no url, and the 0-based index of the *)
(* first one.                                                              *)
WithoutUrl(item) == ~item.dict \/ item.url = 0

Offending(items) == { i \in 1..Len(items) : WithoutUrl(items[i]) }

(* The track lists the tool rejects: not JSON, not a non-empty array, or   *)
(* with an item without a url.                                             *)
Malformed(payload) ==
  \/ ~payload.json
  \/ ~payload.list
  \/ payload.items = <<>>
  \/ Offending(payload.items) # {}

(* The error result for a malformed track list.                            *)
Rejection(payload) ==
  IF ~payload.json
    THEN Answer("play_tracks", "Invalid tracks JSON")
  ELSE IF ~payload.list \/ payload.items = <<>>
    THEN Answer("play_tracks", "tracks must be a non-empty JSON array")
  ELSE [Answer("play_tracks", "missing url") EXCEPT
          !.index = FirstIndex(Offending(payload.items)) - 1]

(* C19: a call of the tool play_tracks with a malformed track list is      *)
(* answered in that very step with the error result for the list (naming   *)
(* the first item without a url), and the step starts no search, fetches   *)
(* no description, issues no device command and creates no session.        *)
C19_RejectedBeforeNetwork ==
  [][ \A name \in Queries, payload \in Payloads :
        (Malformed(payload) /\ play_tracks_tool(name, payload)) =>
          /\ reply' = Rejection(payload)
          /\ searches' = searches
          /\ lookup' = NoLookup
          /\ UNCHANGED <<cache, cache_time, network>>
          /\ UNCHANGED qvars
    ]_vars

(* The step in which find_renderer returns to a call of the tool           *)
(* play_tracks made with payload.                                          *)
Resolves(payload) ==
  \/ /\ lookup # NoLookup
     /\ lookup.tool = "play_tracks"
     /\ lookup.payload = payload
     /\ lookup' = NoLookup
  \/ /\ lookup = NoLookup
     /\ CacheFresh
     /\ \E name \in Queries : play_tracks_tool(name, payload)

(* C20: when the renderer name of a call of the tool play_tracks resolves  *)
(* and the track list is a non-empty array whose items all have a url,     *)
(* the tool hands one track per item, in order, to the queue manager's     *)
(* play_tracks and its result is a success with total_tracks = number of   *)
(* items and the title of the first item as now playing.                   *)
C20_SuccessResult ==
  [][ \A payload \in Payloads :
        (~Malformed(payload) /\ Resolves(payload) /\ resolved' # <<>>) =>
          /\ reply'.outcome = "success"
          /\ reply'.total_tracks = Len(payload.items)
          /\ reply'.title = payload.items[1].title
          /\ \E t \in BagToSet(tasks') :
               /\ t.kind = "play_tracks"
               /\ t.tracks = [i \in 1..Len(payload.items) |-> payload.items[i].url]
    ]_vars

(* start() of the registered session s has ended before it built the       *)
(* device handle: no play_tracks coroutine runs for s and self._dmr is     *)
(* None.                                                                   *)
StartFailed(s) ==
  /\ ~sessions[s].dmr
  /\ \A t \in Tasks : ~(t.kind = "play_tracks" /\ t.s = s)

(* C21: after a play_tracks whose start() failed, next() and previous()    *)
(* on the session the registry holds for the renderer hand a track or      *)
(* None to the tool that awaits them (which has no except clause): they    *)
(* raise nothing.                                                          *)
C21_NoFaultAfterFailedStart ==
  [][ \A u \in UDNs :
        ( /\ registry[u] # None
          /\ StartFailed(registry[u])
          /\ next(u) \/ previous(u) ) =>
          result'.outcome # "raised"
    ]_vars

(* C22: when start() fails because async_subscribe_services or the first   *)
(* async_set_transport_uri raises, play_tracks raises to its caller and    *)
(* the registry holds no session for the renderer afterwards.              *)
C22_FailedStartTornDown ==
  [][ \A t \in Tasks :
        ( /\ t.kind = "play_tracks"
          /\ subscribe_done(t, FALSE) \/ set_uri_done(t, FALSE) ) =>
          /\ result' = [kind |-> "play_tracks", outcome |-> "raised", track |-> -1]
          /\ registry'[t.renderer.udn] = None
    ]_vars

(* The notifications none of the three tests of _on_event matches: the     *)
(* empty one; PLAYING or PAUSED with a uri that is not the preloaded       *)
(* track's; STOPPED, with such a uri, on a renderer that supports          *)
(* SetNextAVTransportURI and is not at its last track.                     *)
Informational(s, transport_state, uri) ==
  \/ transport_state = "" /\ uri = 0
  \/ /\ transport_state \in {"PLAYING", "PAUSED"}
     /\ ~GaplessTransition(s, uri)
  \/ /\ transport_state = "STOPPED"
     /\ sessions[s].renderer.supports_next
     /\ sessions[s].current_index < Len_tracks(s) - 1
     /\ ~GaplessTransition(s, uri)

(* C23: an event that is neither a gapless transition, nor the end of a    *)
(* track on a renderer without gapless support, nor the end of the queue   *)
(* changes no session (current_index, preloaded_index), not the registry,  *)
(* not the notify server, creates no task and issues no device command.    *)
C23_InformationalEvent ==
  [][ \A s \in SessionIds, st \in TransportStates, uri \in URIs :
        (Informational(s, st, uri) /\ on_event(s, st, uri)) =>
          UNCHANGED <<sessions, registry, notify_server, running, tasks, device>>
    ]_vars

(* C23 witness: a subscribed session on a gapless renderer, at its first   *)
(* track of three with the second preloaded and no coroutine in progress:  *)
(* the device's PLAYING, PAUSED and STOPPED reports for the current track  *)
(* are informational.                                                      *)
C23_Witness ==
  \E s \in SessionIds :
    /\ sessions[s].subscribed /\ sessions[s].event_handler \in running
    /\ Gapless(s) /\ Len_tracks(s) = 3
    /\ sessions[s].current_index = 0 /\ sessions[s].preloaded_index = 1
    /\ device[Udn(s)] = [uri |-> Url(s, 0), next_uri |-> Url(s, 1)]
    /\ tasks = EmptyBag
    /\ \A st \in {"PLAYING", "PAUSED", "STOPPED"} : Informational(s, st, Url(s, 0))

Skips == {"next", "previous"}

(* The coroutine t has ended in this step.                                 *)
Ended(t) ==
  /\ CopiesIn(t, tasks') < CopiesIn(t, tasks)
  /\ BagCardinality(tasks') < BagCardinality(tasks)

(* next() or previous() that moves the session s to index i has cleared    *)
(* the preload, set current_index and issued async_set_transport_uri, and  *)
(* has not returned.                                                       *)
Skipped(kind, s, i) ==
  /\ sessions'[s].preloaded_index = -1
  /\ sessions'[s].current_index = i
  /\ device'[Udn(s)].uri = Url(s, i)
  /\ \E t \in BagToSet(tasks') :
       t.kind = kind /\ t.s = s /\ t.pc = "set_uri" /\ t.track = i
  /\ result' = result

(* C24: next() (previous()) on a registered session that is not at its     *)
(* last (first) index clears the preload, moves current_index by one and   *)
(* issues async_set_transport_uri for the new current track; the           *)
(* acknowledgement of that command issues async_play; the acknowledgement  *)
(* of async_play issues async_set_next_transport_uri for current_index + 1 *)
(* if the renderer supports it and a track follows; and the call returns   *)
(* the track it moved to only in the step that acknowledges async_play or  *)
(* ends the preload.                                                       *)
C24_SkipCommandOrder ==
  [][ /\ \A u \in UDNs :
           LET s == registry[u]
           IN /\ ( /\ s # None
                   /\ sessions[s].current_index + 1 < Len_tracks(s)
                   /\ next(u) ) =>
                   Skipped("next", s, sessions[s].current_index + 1)
              /\ ( /\ s # None
                   /\ sessions[s].current_index > 0
                   /\ previous(u) ) =>
                   Skipped("previous", s, sessions[s].current_index - 1)
      /\ \A t \in Tasks :
           t.kind \in Skips =>
             /\ set_uri_done(t, TRUE) =>
                  /\ tasks' = Replace(tasks, t, [t EXCEPT !.pc = "play"])
                  /\ UNCHANGED <<sessions, device, result>>
             /\ play_done(t, TRUE) =>
                  LET next_idx == sessions[t.s].current_index + 1
                  IN IF sessions[t.s].renderer.supports_next /\ next_idx < Len_tracks(t.s)
                       THEN /\ device'[Udn(t.s)].next_uri = Url(t.s, next_idx)
                            /\ \E v \in BagToSet(tasks') :
                                 v.kind = t.kind /\ v.pc = "set_next"
                            /\ result' = result
                       ELSE /\ device' = device
                            /\ result' = [kind |-> t.kind, outcome |-> "returned",
                                          track |-> t.track]
             /\ Ended(t) =>
                  /\ result'.kind = t.kind
                  /\ result'.outcome = "returned" =>
                       t.pc \in {"play", "set_next"} /\ result'.track = t.track
    ]_vars

(* C25: when async_set_transport_uri or async_play raises in the           *)
(* _auto_advance that left track i (t.track = i + 1), nothing is raised to *)
(* anyone, the session stays registered and subscribed, and current_index  *)
(* is i.                                                                   *)
C25_AutoAdvanceFailureKeepsIndex ==
  [][ \A t \in Tasks :
        ( /\ t.kind = "_auto_advance"
          /\ set_uri_done(t, FALSE) \/ play_done(t, FALSE) ) =>
          /\ result' = result
          /\ registry' = registry
          /\ sessions'[t.s].subscribed = sessions[t.s].subscribed
          /\ sessions'[t.s].current_index = t.track - 1
    ]_vars

(* C26: in stop() a failed async_stop is followed by                       *)
(* async_unsubscribe_services like an acknowledged one; whether that       *)
(* fails or not, _cleanup follows, after which no entry of the registry    *)
(* is the session; and a call of stop() ends by returning, never by        *)
(* raising.                                                                *)
C26_StopAlwaysTearsDown ==
  [][ /\ \A t \in Tasks, ok \in BOOLEAN :
           stop_done(t, ok) =>
             \E v \in BagToSet(tasks') :
               v.kind = t.kind /\ v.existing = t.existing /\ v.pc = "unsubscribe"
      /\ \A t \in Tasks, ok \in BOOLEAN :
           unsubscribe_done(t, ok) =>
             /\ sessions'[t.existing].torn
             /\ \A u \in UDNs : registry'[u] # t.existing
      /\ \A t \in Tasks :
           (t.kind = "stop" /\ Ended(t)) =>
             /\ result' = [kind |-> "stop", outcome |-> "returned", track |-> -1]
             /\ sessions'[t.existing].stopped
             /\ \A u \in UDNs : registry'[u] # t.existing
      /\ \A u \in UDNs :
           (registry[u] # None /\ ~sessions[registry[u]].dmr /\ stop(u)) =>
             /\ sessions'[registry[u]].torn
             /\ \A w \in UDNs : registry'[w] # registry[u]
    ]_vars

(* C26 witness: a stop() has returned although its unsubscription failed   *)
(* (the device still delivers events to the session): the session is torn  *)
(* down, out of the registry, and the notify server is stopped.            *)
C26_Witness ==
  \E s \in SessionIds :
    /\ sessions[s].dmr /\ sessions[s].subscribed
    /\ sessions[s].stopped /\ sessions[s].torn
    /\ \A u \in UDNs : registry[u] = None
    /\ notify_server = None /\ running = {}
    /\ result = [kind |-> "stop", outcome |-> "returned", track |-> -1]
    /\ tasks = EmptyBag

(* C27: a session on a renderer that does not support                      *)
(* SetNextAVTransportURI never has a preloaded index, and none of its      *)
(* coroutines has issued async_set_next_transport_uri.                     *)
C27_NoPreloadWithoutSupport ==
  \A s \in SessionIds :
    ~Gapless(s) =>
      /\ sessions[s].preloaded_index = -1
      /\ \A t \in Tasks : t.s = s => t.pc # "set_next"
      /\ device[Udn(s)].next_uri = 0 \/ \E e \in SessionIds : Gapless(e)

(* C27 witness: a session of three tracks on such a renderer has been      *)
(* started, skipped forward twice and back once; the device was never      *)
(* given a next uri.                                                       *)
C27_Witness ==
  \E s \in SessionIds :
    /\ ~Gapless(s) /\ Len_tracks(s) = 3
    /\ sessions[s].dmr /\ sessions[s].subscribed
    /\ sessions[s].current_index = 1
    /\ result = [kind |-> "previous", outcome |-> "returned", track |-> 1]
    /\ device[Udn(s)] = [uri |-> Url(s, 1), next_uri |-> 0]
    /\ tasks = EmptyBag

(* The places of answer whose location yields a record, and the place of   *)
(* the i-th of them among them.                                            *)
ParsedAt(answer) ==
  { i \in 1..Len(answer) :
      fetch_device_description(answer[i].location, answer[i].doc) # <<>> }

Rank(answer, i) == Cardinality({ j \in ParsedAt(answer) : j <= i })

(* C28: whatever locations of a pass fail to be fetched or parsed, the     *)
(* pass ends by returning the records of the other locations, one each,    *)
(* in the order of the locations, and the cache is that very list.         *)
C28_FailuresIsolated ==
  [][ passes' < passes =>
        /\ Len(cache') = Cardinality(ParsedAt(network'))
        /\ \A i \in ParsedAt(network') :
             cache'[Rank(network', i)] =
               fetch_device_description(network'[i].location, network'[i].doc)[1]
        /\ returned' = cache'
        /\ cache_time' = now
    ]_vars

(* C28 witness: of the two locations of a pass the first could not be      *)
(* fetched and the second yielded a record: the cache and the list         *)
(* returned hold that record alone.                                        *)
C28_Witness ==
  /\ Len(network) = 2
  /\ network[1].doc.status = 0
  /\ ParsedAt(network) = {2}
  /\ Len(cache) = 1 /\ cache[1].location = network[2].location
  /\ returned = cache

(* C29: discover_renderers starts a pass (one _ssdp_search) when force is  *)
(* true, however young the cache, and when the cache is CACHE_TTL old or   *)
(* older; the pass ends by setting the cache to what it found, one record  *)
(* at most per location answered and nothing of the previous cache, and    *)
(* the cache time to the time of its end.                                  *)
C29_FreshPass ==
  [][ /\ \A force \in BOOLEAN :
           ( /\ force \/ (now - cache_time) >= CACHE_TTL
             /\ discover_renderers(force) ) =>
             /\ searches' = searches + 1
             /\ passes' = passes + 1
             /\ returned' = returned
      /\ passes' < passes =>
           /\ cache_time' = now
           /\ Len(cache') <= Len(network')
           /\ \A i \in 1..Len(cache') :
                \E j \in 1..Len(network') :
                  << cache'[i] >> =
                    fetch_device_description(network'[j].location, network'[j].doc)
    ]_vars

(* C29 witness: three searches were started, two passes are in progress    *)
(* and the one that ended cached a renderer at this very time: with at     *)
(* most MaxPasses passes at a time, the third search was started on a      *)
(* fresh, non-empty cache, by force.                                       *)
C29_Witness ==
  /\ searches = 3 /\ passes = 2
  /\ cache # <<>>
  /\ cache_time = now

(* C30: set_volume on the registered session fails and hands no volume to  *)
(* the device handle when the renderer record has no rendering control     *)
(* url or the session has no device handle; otherwise it calls             *)
(* async_set_volume_level with level / 100.                                *)
C30_VolumeNeedsControlUrl ==
  [][ \A u \in UDNs, v \in Volumes :
        (registry[u] # None /\ set_volume(u, v)) =>
          LET session == sessions[registry[u]]
          IN IF session.renderer.rendering_control_url = EmptyStr \/ ~session.dmr
               THEN /\ reply' = Answer("set_volume", "Failed to set volume")
                    /\ tasks' = tasks
               ELSE \E t \in BagToSet(tasks') :
                      /\ t.kind = "set_volume" /\ t.pc = "set_volume"
                      /\ t.volume_level = <<clamp(v), 100>>
    ]_vars

(* start() of the session s has subscribed to the device's events and has  *)
(* ended: no play_tracks coroutine runs for s.                             *)
StartCompleted(s) ==
  /\ sessions[s].dmr /\ sessions[s].subscribed
  /\ \A t \in Tasks : ~(t.kind = "play_tracks" /\ t.s = s)

(* C31: whenever a session is registered and its start() has completed,    *)
(* every other session is one of a different renderer and no first start   *)
(* of the notify server is still awaited, the notify server exists and is  *)
(* running, and it is the one the session's event handler was built on.    *)
C31_InfrastructureRunning ==
  \A s \in SessionIds :
    ( /\ registry[Udn(s)] = s /\ StartCompleted(s)
      /\ \A e \in SessionIds \ {s} : Udn(e) # Udn(s)
      /\ \A t \in Tasks : t.pc # "start_server" ) =>
      /\ notify_server # None
      /\ notify_server \in running
      /\ sessions[s].event_handler = notify_server

(* The session whose teardown the coroutine t runs: the session of a       *)
(* _cleanup task, the session stop() was called on otherwise.              *)
TornDownBy(t) == IF t.kind = "_cleanup" THEN t.s ELSE t.existing

(* C32: a step that removes the registry entry of a renderer is a step of  *)
(* a coroutine (running before it, or called in it) that tears down the    *)
(* very session the entry held: a teardown                                 *)
(* of a session that finished or was replaced never removes a newer        *)
(* session registered for the same renderer.                               *)
C32_CleanupRemovesOwnEntry ==
  [][ \A u \in UDNs :
        (registry[u] # None /\ registry'[u] = None) =>
          \E t \in Tasks \cup Tasks' :
             /\ t.kind \in {"_cleanup", "stop", "play_tracks"}
             /\ TornDownBy(t) = registry[u]
             /\ CopiesIn(t, tasks') # CopiesIn(t, tasks) ]_vars

(* This step is the return of start() to the play_tracks call that created *)
(* the session s, no caller having called anything else meanwhile: no      *)
(* other call is running and none has returned.                            *)
StartReturns(s) ==
  /\ \E t \in Tasks : t.kind = "play_tracks" /\ t.s = s
  /\ \A t \in Tasks :
        t.kind \in {"play_tracks", "_preload_next", "_auto_advance", "_cleanup"}
  /\ result = NoResult
  /\ result'.kind = "play_tracks" /\ result'.outcome = "returned"

(* C33: when start() returns, whatever events were delivered since it      *)
(* subscribed, current_index is 0, the track last set on the device is     *)
(* track 0, and the session is still registered and not torn down.         *)
C33_StoppedWhileStartingIgnored ==
  [][ \A s \in SessionIds :
        StartReturns(s) =>
          /\ sessions'[s].current_index = 0
          /\ device'[Udn(s)].uri = Url(s, 0)
          /\ registry'[Udn(s)] = s
          /\ ~sessions'[s].torn ]_vars

(* ---- a session played to its end ---- *)

(* No coroutine of the session s is scheduled or awaits an acknowledgement: *)
(* start() has returned and every task _on_event created has ended.        *)
Quiet(s) == \A t \in Tasks : t.s # s

(* The device plays for s: start() has completed, s is still registered    *)
(* and every command issued for s is acknowledged (a track lasts longer    *)
(* than the round trip of a command).                                      *)
Playing(s) ==
  /\ sessions[s].dmr /\ sessions[s].subscribed
  /\ registry[Udn(s)] = s
  /\ Quiet(s)

(* The device reaches the end of a track with the next one preloaded and   *)
(* acknowledged: it goes on with that track and notifies its URI.          *)
DeviceHandsOff(s) ==
  /\ Playing(s)
  /\ sessions[s].renderer.supports_next
  /\ sessions[s].preloaded_index # -1
  /\ device[Udn(s)].next_uri = Url(s, sessions[s].preloaded_index)
  /\ on_event(s, "PLAYING", Url(s, sessions[s].preloaded_index))

(* The device reaches the end of a track with nothing to go on with (a     *)
(* device without SetNextAVTransportURI, or the last track): it notifies   *)
(* STOPPED.                                                                *)
DeviceStops(s) ==
  /\ Playing(s)
  /\ \/ ~sessions[s].renderer.supports_next
     \/ sessions[s].current_index = Len_tracks(s) - 1
  /\ on_event(s, "STOPPED", Url(s, sessions[s].current_index))

LiveRenderers ==
  { [udn |-> u, supports_next |-> b, rendering_control_url |-> RcUrl] :
      u \in UDNs, b \in BOOLEAN }

(* One play_tracks call and no other call: every command is acknowledged,  *)
(* the device plays each track to its end and notifies each transition.    *)
NextLive ==
  \/ \E r \in LiveRenderers, trk \in TrackLists :
        Created = 0 /\ play_tracks(r, trk)
  \/ StartSteps({TRUE})
  \/ \E t \in Tasks : set_next_done(t, TRUE)
  \/ \E s \in 1..Len(sessions) : DeviceHandsOff(s)
  \/ \E s \in 1..Len(sessions) : DeviceStops(s)
  \/ \E t \in Tasks : preload_next_task(t)
  \/ \E t \in Tasks : auto_advance_task(t)
  \/ \E t \in Tasks : cleanup_task(t)
  \/ \E t \in Tasks : stop_server_done(t)

(* Every awaited call returns, the event loop runs every task it holds,    *)
(* and a track that plays comes to its end.                                *)
Fairness ==
  /\ WF_vars(StartSteps({TRUE}))
  /\ WF_vars(\E t \in Tasks : set_next_done(t, TRUE))
  /\ WF_vars(\E s \in 1..Len(sessions) : DeviceHandsOff(s))
  /\ WF_vars(\E s \in 1..Len(sessions) : DeviceStops(s))
  /\ WF_vars(\E t \in Tasks : preload_next_task(t))
  /\ WF_vars(\E t \in Tasks : auto_advance_task(t))
  /\ WF_vars(\E t \in Tasks : cleanup_task(t))
  /\ WF_vars(\E t \in Tasks : stop_server_done(t))

SpecLive == Init /\ [][NextLive]_vars /\ Fairness

(* The session s is Finished: it is at its last track and out of the       *)
(* registry.                                                               *)
Finished(s) ==
  /\ s <= Len(sessions)
  /\ sessions[s].current_index = Len_tracks(s) - 1
  /\ registry[Udn(s)] # s

(* C34: a session whose start() has completed, with no other call, every   *)
(* command acknowledged and every transition of the device notified,       *)
(* eventually is at its last track and out of the registry.                *)
C34_EventuallyFinished ==
  \A s \in 1..MaxSessions :
    (s <= Len(sessions) /\ StartCompleted(s)) ~> Finished(s)

(* C34 witness: a session of more than one track on a device with          *)
(* SetNextAVTransportURI has been played to its end: it is at its last     *)
(* track, torn down and out of the registry, and no coroutine is left.     *)
C34_Witness ==
  \E s \in SessionIds :
    /\ Len_tracks(s) > 1 /\ sessions[s].renderer.supports_next
    /\ Finished(s) /\ sessions[s].torn
    /\ tasks = EmptyBag

====
